---- MODULE Spec2Model ----
(***************************************************************************)
(* Model of torba's account and wallet database:                           *)
(*   torba/baseaccount.py   AddressManager, HierarchicalDeterministic,     *)
(*                          SingleKey, BaseAccount                         *)
(*   torba/basedatabase.py  BaseDatabase                                   *)
(* Every database call returns a deferred; an inlineCallbacks coroutine    *)
(* is suspended at each yield, so each database statement (or each         *)
(* runInteraction) is one atomic step and the callers' coroutines          *)
(* interleave between them.                                                *)
(***************************************************************************)
EXTENDS Integers, Sequences, FiniteSets, Bags, TLC

(* ------------------------------ bounds -------------------------------- *)

\* highest child index generate_keys is allowed to derive in the model
MaxPosition == 2
\* gap of the receiving chain (chain 0) and of the change chain (chain 1)
ReceivingGap == 2
ChangeGap == 1
\* maximum_uses_per_address of both chains
MaximumUses == 1
\* number of coroutines that may be in flight at once
NumProcs == 2
\* number of save_transaction_io calls and of set_address_history calls
\* in one run
MaxSaves == 3
MaxHistories == 1

Procs == 1..NumProcs

(* ------------------------- keys and addresses -------------------------- *)

\* A public key is the derivation path from the account's master key.
MasterKey == <<>>

\* PubKey.child(i)
child(key, i) == Append(key, i)

\* hash160 of a public key, as carried by a pay-to-pubkey-hash script
hash160(key) == [h |-> key]

\* PubKey.address: the encoded hash160
address_of(key) == [a |-> hash160(key)]

\* ledger.address_to_hash160(address)
address_to_hash160(addr) == addr.a

\* account.public_key.address, the account column of pubkey_address
AccountId == address_of(MasterKey)

\* a hash160 and a txoid that belong to nobody in this wallet
ForeignHash == [h |-> <<9>>]
ForeignTxoId == <<"t0", 0>>

(* ------------------------------ histories ------------------------------ *)

\* A history string is a sequence of characters.  NULL is the column value
\* of a row whose history was never set; None is the Python value None.
NULL == <<"NULL">>
None == <<"None">>

Histories ==
    { <<>>,
      <<"a", ":", "1", ":", "b", ":", "2">>,
      <<"a", ":", "1", ":", "b", ":", "2", ":">> }

\* str.count(':')
RECURSIVE count(_)
count(s) ==
    IF s = <<>> THEN 0
    ELSE (IF Head(s) = ":" THEN 1 ELSE 0) + count(Tail(s))

(* ----------------------------- transactions ---------------------------- *)

\* txo.id of the output at `position` of transaction `txid`
TxoId(txid, position) == <<txid, position>>

P2PKH(hash) == [is_pay_pubkey_hash |-> TRUE, is_pay_script_hash |-> FALSE,
                pubkey_hash |-> hash]
P2SH(hash)  == [is_pay_pubkey_hash |-> FALSE, is_pay_script_hash |-> TRUE,
                pubkey_hash |-> hash]

Receiving0 == child(child(MasterKey, 0), 0)
Receiving1 == child(child(MasterKey, 0), 1)
Change0    == child(child(MasterKey, 1), 0)

\* t1 pays the first receiving address, the single address, a foreign key
\* and a script hash; t2 spends t1's first two outputs and a foreign output
\* and pays the second receiving address and the single address.
Tx1 ==
    [id |-> "t1",
     inputs |-> << ForeignTxoId >>,
     outputs |-> << [position |-> 0, amount |-> 5, script |-> P2PKH(hash160(Receiving0))],
                    [position |-> 1, amount |-> 3, script |-> P2PKH(hash160(MasterKey))],
                    [position |-> 2, amount |-> 2, script |-> P2PKH(ForeignHash)],
                    [position |-> 3, amount |-> 1, script |-> P2SH(hash160(Receiving0))] >>]
Tx2 ==
    [id |-> "t2",
     inputs |-> << TxoId("t1", 0), TxoId("t1", 1), TxoId("t1", 2) >>,
     outputs |-> << [position |-> 0, amount |-> 7, script |-> P2PKH(hash160(Receiving1))],
                    [position |-> 1, amount |-> 1, script |-> P2PKH(hash160(MasterKey))] >>]

Transactions == {Tx1, Tx2}

VARIABLES
    address_generator,  \* BaseAccount.address_generator: the variant's name
    seed,               \* BaseAccount.seed
    encrypted,          \* BaseAccount.encrypted
    private_key,        \* BaseAccount.private_key
    receiving_gap,      \* HierarchicalDeterministic.gap of account.receiving
    pubkey_address,     \* rows of table pubkey_address
    tx,                 \* rows of table tx
    txo,                \* rows of table txo
    txi,                \* rows of table txi (a bag: the table has no key)
    pc,                 \* pc[p]: where coroutine p is suspended
    local,              \* local[p]: the local variables of coroutine p
    ret,                \* what the call that completed last returned or raised
    ever_used,          \* chains on which some address was ever marked used
    calls               \* calls[op]: number of calls of op made so far

vars == <<address_generator, seed, encrypted, private_key, receiving_gap,
          pubkey_address, tx, txo, txi, pc, local, ret, ever_used, calls>>

\* the fields of the account that no database call assigns
account == <<address_generator, seed, encrypted, private_key, receiving_gap>>


(* ----------------------------- key material --------------------------- *)

\* the gap HierarchicalDeterministic.from_dict gives the receiving chain when
\* the account dict names none
DefaultGap == 20

\* a str object; `cipher` is the secret it is encrypted under, <<>> for a
\* plaintext
Str(cipher, text) == [kind |-> "str", cipher |-> cipher, text |-> text, path |-> <<>>]

\* a PrivateKey object; `path` is its derivation path from the master key
PrivateKey(path) == [kind |-> "PrivateKey", cipher |-> <<>>, text |-> "", path |-> path]

Passwords == {"pw"}

double_sha256(password) == <<"sha256", password>>

\* the cipher: decrypting under another secret does not give the plaintext
aes_encrypt(secret, s) == Str(secret, s.text)
aes_decrypt(secret, s) ==
    IF s.cipher = secret THEN Str(<<>>, s.text) ELSE Str(<<>>, "garbage")

\* PrivateKey.extended_key_string of the master private key
extended_key_string(key) == Str(<<>>, "xprv")

\* from_extended_key_string: the key, or an exception when the string is
\* not an extended key
from_extended_key_string(s) ==
    [raised |-> ~(s.cipher = <<>> /\ s.text = "xprv"), value |-> PrivateKey(MasterKey)]

\* the account dicts from_dict is given: a generated account (seed), an
\* account with a private key only, a watch-only account (public key only)
\* and an encrypted account
GeneratedDict ==
    [seed |-> Str(<<>>, "seed"), private_key |-> Str(<<>>, ""), encrypted |-> FALSE]
AccountDicts ==
    { GeneratedDict,
      [seed |-> Str(<<>>, ""), private_key |-> Str(<<>>, "xprv"), encrypted |-> FALSE],
      [seed |-> Str(<<>>, ""), private_key |-> Str(<<>>, ""), encrypted |-> FALSE] } \cup
    { [seed |-> aes_encrypt(double_sha256(pw), Str(<<>>, "seed")),
       private_key |-> aes_encrypt(double_sha256(pw), Str(<<>>, "xprv")),
       encrypted |-> TRUE] : pw \in Passwords }

\* BaseAccount.from_dict: seed, private_key and encrypted of the account
from_dict(d) ==
    [seed |-> d.seed,
     encrypted |-> d.encrypted,
     private_key |->
        IF ~d.encrypted
        THEN IF d.seed.text # "" THEN PrivateKey(MasterKey)
             ELSE IF d.private_key.text # ""
                  THEN from_extended_key_string(d.private_key).value
                  ELSE d.private_key
        ELSE d.private_key]


(* ------------------------ BaseDatabase: addresses ---------------------- *)

\* Python's None for the optional integer arguments of get_addresses
NoneInt == -1

\* r1 comes strictly before r2 under the ORDER BY clause order_by
Before(r1, r2, order_by) ==
    CASE order_by = "position DESC" -> r1.position > r2.position
      [] order_by = "position ASC" -> r1.position < r2.position
      [] order_by = "used_times ASC, position ASC" ->
            \/ r1.used_times < r2.used_times
            \/ r1.used_times = r2.used_times /\ r1.position < r2.position
      [] OTHER -> FALSE

\* the rows of S as the list the ORDER BY clause yields
RECURSIVE Ordered(_, _)
Ordered(S, order_by) ==
    IF S = {} THEN <<>>
    ELSE LET first == CHOOSE x \in S : \A y \in S \ {x} : ~Before(y, x, order_by)
         IN  <<first>> \o Ordered(S \ {first}, order_by)

\* BaseDatabase.get_addresses with the account pinned: the rows of the
\* account (and chain), filtered, ordered and limited, projected on the
\* columns the query selects
get_addresses(rows, chain, limit, max_used_times, order_by) ==
    LET selected == { r \in rows :
                        /\ r.account = AccountId
                        /\ (chain # NoneInt => r.chain = chain)
                        /\ (max_used_times # NoneInt => r.used_times <= max_used_times) }
        projected == { [position |-> r.position, address |-> r.address,
                        used_times |-> r.used_times, chain |-> r.chain] : r \in selected }
        ordered == Ordered(projected, order_by)
    IN  IF limit # NoneInt /\ limit < Len(ordered)
        THEN SubSeq(ordered, 1, limit) ELSE ordered

\* add_keys on a table whose address column is not a key
add_keys_without_primary_key(rows, chain, keys) ==
    [raised |-> keys = <<>>,
     pubkey_address |-> rows \cup
        { [address |-> address_of(keys[i][2]), account |-> AccountId,
           chain |-> chain, position |-> keys[i][1], pubkey |-> keys[i][2],
           history |-> NULL, used_times |-> 0] : i \in DOMAIN keys }]

\* BaseDatabase.add_keys: one INSERT statement for all keys; address is the
\* primary key, so a key whose address is stored already makes the whole
\* statement fail (sqlite3.IntegrityError) and nothing is inserted.
\* keys is a sequence of <<position, pubkey>>.
add_keys(rows, chain, keys) ==
    LET new == { [address |-> address_of(keys[i][2]), account |-> AccountId,
                  chain |-> chain, position |-> keys[i][1], pubkey |-> keys[i][2],
                  history |-> NULL, used_times |-> 0] : i \in DOMAIN keys }
        clash == \E n \in new : \E r \in rows : r.address = n.address
    IN  IF clash \/ keys = <<>>
        THEN [raised |-> TRUE, pubkey_address |-> rows]
        ELSE [raised |-> FALSE, pubkey_address |-> rows \cup new]

\* _set_address_history storing count(':') instead of count(':')//2
set_address_history_sql_undivided(rows, address, history) ==
    IF history = None
    THEN [raised |-> TRUE, pubkey_address |-> rows]
    ELSE [raised |-> FALSE,
          pubkey_address |->
            { IF r.address = address
              THEN [r EXCEPT !.history = history, !.used_times = count(history)]
              ELSE r : r \in rows }]

\* BaseDatabase._set_address_history: history.count raises on None,
\* otherwise one UPDATE of the row of that address (if there is one)
set_address_history_sql(rows, address, history) ==
    IF history = None
    THEN [raised |-> TRUE, pubkey_address |-> rows]
    ELSE [raised |-> FALSE,
          pubkey_address |->
            { IF r.address = address
              THEN [r EXCEPT !.history = history, !.used_times = count(history) \div 2]
              ELSE r : r \in rows }]

(* --------------------------- address managers -------------------------- *)

Managers == {"receiving", "change"}

\* chain_number if SingleKey.from_dict built one manager per chain
chain_number_per_manager(m) == IF m = "receiving" THEN 0 ELSE 1

\* AddressManager.chain_number as set by from_dict of the variant
chain_number(m) ==
    IF address_generator = "single-address" THEN 0
    ELSE IF m = "receiving" THEN 0 ELSE 1

\* AddressManager.public_key as set by the variant's constructor
public_key(m) ==
    IF address_generator = "single-address" THEN MasterKey
    ELSE child(MasterKey, chain_number(m))

\* HierarchicalDeterministic.gap
gap(m) == IF m = "receiving" THEN receiving_gap ELSE ChangeGap

\* AddressManager._query_addresses
query_addresses(m, limit, max_used_times, order_by) ==
    get_addresses(pubkey_address, chain_number(m), limit, max_used_times, order_by)

\* get_address_records of a deterministic chain ordering by position only
get_address_records_by_position(m, limit, only_usable) ==
    IF address_generator = "single-address"
    THEN query_addresses(m, NoneInt, NoneInt, "")
    ELSE query_addresses(m, limit, IF only_usable THEN MaximumUses ELSE NoneInt,
                         "position ASC")

\* <variant>.get_address_records
get_address_records(m, limit, only_usable) ==
    IF address_generator = "single-address"
    THEN query_addresses(m, NoneInt, NoneInt, "")
    ELSE query_addresses(m, limit, IF only_usable THEN MaximumUses ELSE NoneInt,
                         "used_times ASC, position ASC")

\* the loop of get_max_gap returning the longer of max_gap and the run that
\* is still open when the list ends
RECURSIVE max_gap_loop_with_tail(_, _, _)
max_gap_loop_with_tail(addresses, max_gap, current_gap) ==
    IF addresses = <<>>
    THEN IF max_gap > current_gap THEN max_gap ELSE current_gap
    ELSE IF Head(addresses).used_times = 0
         THEN max_gap_loop_with_tail(Tail(addresses), max_gap, current_gap + 1)
         ELSE max_gap_loop_with_tail(Tail(addresses),
                                     IF max_gap > current_gap THEN max_gap ELSE current_gap,
                                     0)

\* the loop of HierarchicalDeterministic.get_max_gap: current_gap counts the
\* unused addresses since the last used one, and max_gap takes it over each
\* time a used address is met
RECURSIVE max_gap_loop(_, _, _)
max_gap_loop(addresses, max_gap, current_gap) ==
    IF addresses = <<>>
    THEN max_gap
    ELSE IF Head(addresses).used_times = 0
         THEN max_gap_loop(Tail(addresses), max_gap, current_gap + 1)
         ELSE max_gap_loop(Tail(addresses),
                           IF max_gap > current_gap THEN max_gap ELSE current_gap,
                           0)

\* <variant>.get_max_gap: SingleKey answers 0 without a query
get_max_gap(m) ==
    IF address_generator = "single-address"
    THEN 0
    ELSE max_gap_loop(query_addresses(m, NoneInt, NoneInt, "position ASC"), 0, 0)

\* existing_gap with the loop starting at the second address
RECURSIVE existing_gap_skipping_first(_, _)
existing_gap_skipping_first(addresses, i) ==
    IF i > Len(addresses) THEN 0
    ELSE IF i = 1 THEN existing_gap_skipping_first(addresses, 2)
    ELSE IF addresses[i].used_times = 0
         THEN 1 + existing_gap_skipping_first(addresses, i + 1)
         ELSE 0
existing_gap_off_by_one(addresses) == existing_gap_skipping_first(addresses, 1)

\* existing_gap with a loop that does not stop at the first used address
RECURSIVE existing_gap_without_break(_)
existing_gap_without_break(addresses) ==
    IF addresses = <<>> THEN 0
    ELSE (IF Head(addresses).used_times = 0 THEN 1 ELSE 0)
         + existing_gap_without_break(Tail(addresses))

\* the loop of HierarchicalDeterministic.ensure_address_gap: the number of
\* unused addresses at the head of the list, up to the first used one
RECURSIVE existing_gap(_)
existing_gap(addresses) ==
    IF addresses = <<>> THEN 0
    ELSE IF Head(addresses).used_times = 0
         THEN 1 + existing_gap(Tail(addresses))
         ELSE 0

\* generate_keys looping over range(start, end)
new_keys_without_last(m, start, end) ==
    [i \in 1..(end - start) |-> <<start + i - 1, child(public_key(m), start + i - 1)>>]

\* the keys generate_keys(start, end) derives: range(start, end+1)
new_keys(m, start, end) ==
    [i \in 1..(end + 1 - start) |-> <<start + i - 1, child(public_key(m), start + i - 1)>>]

\* the first and the last index ensure_address_gap passes to generate_keys
gap_start(addresses) ==
    IF addresses # <<>> THEN addresses[1].position + 1 ELSE 0
gap_end_one_short(m, addresses) ==
    gap_start(addresses) + (gap(m) - existing_gap(addresses)) - 2
gap_end(m, addresses) ==
    gap_start(addresses) + (gap(m) - existing_gap(addresses)) - 1


(* ---------------------- BaseDatabase: transactions --------------------- *)

\* the tables as one value, with the flag `raised` of the running
\* interaction: once a statement has raised, no later statement runs
Tables(rows_pa, rows_tx, rows_txo, rows_txi) ==
    [pubkey_address |-> rows_pa, tx |-> rows_tx, txo |-> rows_txo,
     txi |-> rows_txi, raised |-> FALSE]

\* BaseDatabase.txo_to_row, with the column default is_reserved = 0
txo_to_row(t, address, out) ==
    [txid |-> t.id, txoid |-> TxoId(t.id, out.position), address |-> address,
     position |-> out.position, amount |-> out.amount, script |-> out.script,
     is_reserved |-> 0]

\* step 1 of _steps: INSERT INTO tx (txid is the primary key) or UPDATE tx
save_tx_row(db, save_tx, t, height, is_verified) ==
    IF save_tx = "insert"
    THEN IF \E r \in db.tx : r.txid = t.id
         THEN [db EXCEPT !.raised = TRUE]
         ELSE [db EXCEPT !.tx = @ \cup {[txid |-> t.id, raw |-> t.id,
                                         height |-> height, is_verified |-> is_verified]}]
    ELSE IF save_tx = "update"
    THEN [db EXCEPT !.tx = { IF r.txid = t.id
                             THEN [r EXCEPT !.height = height, !.is_verified = is_verified]
                             ELSE r : r \in @ }]
    ELSE db

\* save_outputs without the test `txo.script.is_pay_pubkey_hash`
RECURSIVE save_outputs_any_script(_, _, _, _, _, _)
save_outputs_any_script(db, t, address, txhash, existing_txos, i) ==
    IF db.raised \/ i > Len(t.outputs) THEN db
    ELSE LET out == t.outputs[i]
             row == txo_to_row(t, address, out)
             next ==
                IF out.position \in existing_txos THEN db
                ELSE IF out.script.pubkey_hash = txhash
                THEN IF \E r \in db.txo : r.txoid = row.txoid
                     THEN [db EXCEPT !.raised = TRUE]
                     ELSE [db EXCEPT !.txo = @ \cup {row}]
                ELSE db
         IN  save_outputs_any_script(next, t, address, txhash, existing_txos, i + 1)

\* step 2 of _steps: the loop over tx.outputs, from output i on;
\* existing_txos is the list of positions read before the loop
RECURSIVE save_outputs(_, _, _, _, _, _)
save_outputs(db, t, address, txhash, existing_txos, i) ==
    IF db.raised \/ i > Len(t.outputs) THEN db
    ELSE LET out == t.outputs[i]
             row == txo_to_row(t, address, out)
             next ==
                IF out.position \in existing_txos THEN db
                ELSE IF out.script.is_pay_pubkey_hash /\ out.script.pubkey_hash = txhash
                THEN IF \E r \in db.txo : r.txoid = row.txoid
                     THEN [db EXCEPT !.raised = TRUE]
                     ELSE [db EXCEPT !.txo = @ \cup {row}]
                ELSE db
         IN  save_outputs(next, t, address, txhash, existing_txos, i + 1)

\* the dict txoid_to_address, as its set of <<txoid, address>> items: the
\* stored txos whose txoid is one of the ids of tx.inputs
txoid_to_address(rows_txo, t) ==
    { <<r.txoid, r.address>> :
        r \in { x \in rows_txo : \E i \in DOMAIN t.inputs : t.inputs[i] = x.txoid } }

\* save_inputs without the test `txoid not in existing_txis`
RECURSIVE save_inputs_relinking(_, _, _, _, _, _)
save_inputs_relinking(db, t, address, lookup, existing_txis, i) ==
    IF db.raised \/ i > Len(t.inputs) THEN db
    ELSE LET txoid == t.inputs[i]
             next ==
                IF <<txoid, address>> \in lookup
                THEN [db EXCEPT !.txi = @ (+) SetToBag({[txid |-> t.id, txoid |-> txoid,
                                                         address |-> address]})]
                ELSE db
         IN  save_inputs_relinking(next, t, address, lookup, existing_txis, i + 1)

\* save_inputs without the test `address_matches`
RECURSIVE save_inputs_any_address(_, _, _, _, _, _)
save_inputs_any_address(db, t, address, lookup, existing_txis, i) ==
    IF db.raised \/ i > Len(t.inputs) THEN db
    ELSE LET txoid == t.inputs[i]
             next ==
                IF txoid \notin existing_txis
                THEN [db EXCEPT !.txi = @ (+) SetToBag({[txid |-> t.id, txoid |-> txoid,
                                                         address |-> address]})]
                ELSE db
         IN  save_inputs_any_address(next, t, address, lookup, existing_txis, i + 1)

\* step 3 of _steps: the loop over tx.inputs, from input i on; lookup and
\* existing_txis are what the two SELECTs before the loop returned
RECURSIVE save_inputs(_, _, _, _, _, _)
save_inputs(db, t, address, lookup, existing_txis, i) ==
    IF db.raised \/ i > Len(t.inputs) THEN db
    ELSE LET txoid == t.inputs[i]
             new_txi == txoid \notin existing_txis
             address_matches == <<txoid, address>> \in lookup
             next ==
                IF new_txi /\ address_matches
                THEN [db EXCEPT !.txi = @ (+) SetToBag({[txid |-> t.id, txoid |-> txoid,
                                                         address |-> address]})]
                ELSE db
         IN  save_inputs(next, t, address, lookup, existing_txis, i + 1)

\* step 4 of _steps: _set_address_history inside the same interaction
save_history(db, address, history) ==
    IF db.raised THEN db
    ELSE LET r == set_address_history_sql(db.pubkey_address, address, history)
         IN  [db EXCEPT !.pubkey_address = r.pubkey_address, !.raised = r.raised]

\* the function _steps of save_transaction_io: the four steps in order
steps(db, save_tx, t, height, is_verified, address, txhash, history) ==
    LET s1 == save_tx_row(db, save_tx, t, height, is_verified)
        existing_txos == { r.position : r \in { x \in s1.txo : x.txid = t.id } }
        s2 == save_outputs(s1, t, address, txhash, existing_txos, 1)
        existing_txis == { r.txoid : r \in { x \in BagToSet(s2.txi) : x.txid = t.id } }
        s3 == save_inputs(s2, t, address, txoid_to_address(s2.txo, t), existing_txis, 1)
    IN  save_history(s3, address, history)

\* runInteraction committing what was done before the exception
runInteraction_without_rollback(before, after) == after

\* ConnectionPool.runInteraction: commit what the interaction did, or roll
\* everything back when it raised
runInteraction(before, after) ==
    IF after.raised THEN [before EXCEPT !.raised = TRUE] ELSE after

\* reserve_outputs ignoring its is_reserved argument
reserve_outputs_always_set(rows_txo, txoids, is_reserved) ==
    { IF r.txoid \in txoids THEN [r EXCEPT !.is_reserved = 1] ELSE r : r \in rows_txo }

\* BaseDatabase.reserve_outputs(txos, is_reserved): one UPDATE of the rows
\* whose txoid is in the list; txoids is the set of the txo.id of txos
reserve_outputs(rows_txo, txoids, is_reserved) ==
    { IF r.txoid \in txoids
      THEN [r EXCEPT !.is_reserved = IF is_reserved THEN 1 ELSE 0]
      ELSE r : r \in rows_txo }

\* release_outputs with an UPDATE that has lost its WHERE clause
release_outputs_everything(rows_txo, txoids) ==
    reserve_outputs(rows_txo, { r.txoid : r \in rows_txo }, FALSE)

\* BaseDatabase.release_outputs
release_outputs(rows_txo, txoids) == reserve_outputs(rows_txo, txoids, FALSE)

\* the SELECT of get_utxos_for_account without `txo.is_reserved=0`
utxo_query_with_reserved(rows_txo, rows_pa, rows_txi) ==
    { j \in { <<o, a>> : o \in rows_txo, a \in rows_pa } :
        /\ j[2].address = j[1].address
        /\ j[2].account = AccountId
        /\ j[1].txoid \notin { i.txoid : i \in BagToSet(rows_txi) } }

\* the rows the SELECT of get_utxos_for_account yields: the join of txo
\* with pubkey_address on the address, filtered by the WHERE clause
utxo_query(rows_txo, rows_pa, rows_txi) ==
    { j \in { <<o, a>> : o \in rows_txo, a \in rows_pa } :
        /\ j[2].address = j[1].address
        /\ j[2].account = AccountId
        /\ j[1].is_reserved = 0
        /\ j[1].txoid \notin { i.txoid : i \in BagToSet(rows_txi) } }

\* get_utxos_for_account without `txoid NOT IN (SELECT txoid FROM txi)`
get_utxos_for_account_with_spent(rows_txo, rows_pa, rows_txi) ==
    { [amount |-> j[1].amount, script |-> j[1].script, tx_ref |-> j[1].txid,
       position |-> j[1].position] : j \in utxo_query(rows_txo, rows_pa, EmptyBag) }

\* BaseDatabase.get_utxos_for_account without extra constraints: an output
\* object (amount, script, tx_ref, position) for every row of the query
get_utxos_for_account(rows_txo, rows_pa, rows_txi) ==
    { [amount |-> j[1].amount, script |-> j[1].script, tx_ref |-> j[1].txid,
       position |-> j[1].position] : j \in utxo_query(rows_txo, rows_pa, rows_txi) }

\* txo.id of an output object
id_of(out) == TxoId(out.tx_ref, out.position)

\* SUM(amount) over the rows of a join whose first component is the txo row
RECURSIVE sum_amount(_)
sum_amount(joined) ==
    IF joined = {} THEN 0
    ELSE LET j == CHOOSE x \in joined : TRUE IN j[1].amount + sum_amount(joined \ {j})

\* BaseDatabase.get_balance_for_account without extra constraints: the sum
\* over the join of txo with tx and pubkey_address, filtered by the WHERE
\* clause; query_one_value turns the NULL of an empty sum into 0
get_balance_for_account(rows_txo, rows_tx, rows_pa, rows_txi, include_reserved) ==
    sum_amount({ j \in { <<o, t, a>> : o \in rows_txo, t \in rows_tx, a \in rows_pa } :
                   /\ j[2].txid = j[1].txid
                   /\ j[3].address = j[1].address
                   /\ j[3].account = AccountId
                   /\ j[1].txoid \notin { i.txoid : i \in BagToSet(rows_txi) }
                   /\ (~include_reserved => j[1].is_reserved = 0) })


(* ------------------------------ the state ------------------------------ *)

Idle == [op |-> "none"]

\* every address the account can derive within the bound
AddressUniverse ==
    {address_of(MasterKey)} \cup
    { address_of(child(child(MasterKey, c), i)) : c \in {0, 1}, i \in 0..MaxPosition }

\* the arguments save_transaction_io is called with: save_tx and height (a
\* transaction is inserted when it is first seen, unconfirmed, updated when
\* it is confirmed, and skipped when it is stored already; it is verified
\* once it has a height), the history, and the address whose history the
\* transaction was found in
SaveCalls == {<<"insert", 0>>, <<"update", 1>>, <<"skip", 1>>}
SaveHistories == {<<>>, <<"a", ":", "1", ":", "b", ":", "2">>, None}
SaveAddresses ==
    IF address_generator = "single-address"
    THEN {address_of(MasterKey)}
    ELSE {address_of(Receiving0), address_of(Receiving1)}

DB == Tables(pubkey_address, tx, txo, txi)

\* the chains on which `address` is stored
chains_of(rows, address) == { r.chain : r \in { x \in rows : x.address = address } }

\* the account as constructed from one of the dicts `dicts`, its receiving
\* gap one of `gaps`, and the empty database
InitWith(dicts, gaps) ==
    /\ address_generator \in {"deterministic-chain", "single-address"}
    /\ \E d \in dicts :
          /\ seed = from_dict(d).seed
          /\ encrypted = from_dict(d).encrypted
          /\ private_key = from_dict(d).private_key
    /\ receiving_gap \in gaps
    /\ pubkey_address = {}
    /\ tx = {}
    /\ txo = {}
    /\ txi = EmptyBag
    /\ pc = [p \in Procs |-> "idle"]
    /\ local = [p \in Procs |-> Idle]
    /\ ret = Idle
    /\ ever_used = {}
    /\ calls = [op \in {"save_transaction_io", "set_address_history"} |-> 0]

\* a generated account with a small receiving gap
Init == InitWith({GeneratedDict}, {ReceivingGap})

\* coroutine p returns (or raises) r
Return(p, r) ==
    /\ pc' = [pc EXCEPT ![p] = "idle"]
    /\ local' = [local EXCEPT ![p] = Idle]
    /\ ret' = r

(* ------------------- address managers: the coroutines ------------------ *)

\* the highest position the chains are followed to
PositionLimit ==
    IF receiving_gap = DefaultGap THEN 2 * DefaultGap - 1 ELSE MaxPosition

\* whether ensure_address_gap has nothing to add, given what it queried
gap_is_full(m, addresses) ==
    IF address_generator = "single-address"
    THEN addresses # <<>>
    ELSE existing_gap(addresses) = gap(m)

\* what ensure_address_gap yields to its caller: `via` is the caller,
\* which for get_or_create_usable_address takes addresses[0] (IndexError
\* on an empty list)
EnsureResult(m, via, raised, value) ==
    IF via = "get_or_create_usable_address"
    THEN [op |-> via, manager |-> m, raised |-> raised \/ value = <<>>,
          value |-> IF raised \/ value = <<>> THEN <<>> ELSE <<value[1]>>]
    ELSE [op |-> via, manager |-> m, raised |-> raised, value |-> value]

\* ensure_address_gap up to its first suspension after the query: the
\* query of the last addresses, the count, and the early return
EnsureQuery(p, m, via) ==
    LET addresses ==
            IF address_generator = "single-address"
            THEN get_address_records(m, NoneInt, FALSE)
            ELSE query_addresses(m, gap(m), NoneInt, "position DESC")
    IN  /\ (address_generator = "deterministic-chain" /\ ~gap_is_full(m, addresses))
              => gap_end(m, addresses) <= PositionLimit
        /\ IF gap_is_full(m, addresses)
           THEN Return(p, EnsureResult(m, via, FALSE, <<>>))
           ELSE /\ pc' = [pc EXCEPT ![p] = "generate"]
                /\ local' = [local EXCEPT ![p] =
                       [op |-> "ensure_address_gap", manager |-> m, via |-> via,
                        addresses |-> addresses]]
                /\ UNCHANGED ret
        /\ UNCHANGED <<account, pubkey_address, tx, txo, txi, ever_used, calls>>

\* a call of <manager>.ensure_address_gap()
EnsureAddressGap(p, m) ==
    /\ pc[p] = "idle"
    /\ EnsureQuery(p, m, "ensure_address_gap")

\* a call of <manager>.get_or_create_usable_address(): the query for one
\* usable address, and the return when there is one
GetOrCreateUsableAddress(p, m) ==
    /\ pc[p] = "idle"
    /\ LET records == get_address_records(m, 1, TRUE)
       IN  IF records # <<>>
           THEN Return(p, [op |-> "get_or_create_usable_address", manager |-> m,
                           raised |-> FALSE, value |-> <<records[1].address>>])
           ELSE /\ pc' = [pc EXCEPT ![p] = "ensure"]
                /\ local' = [local EXCEPT ![p] =
                       [op |-> "get_or_create_usable_address", manager |-> m]]
                /\ UNCHANGED ret
    /\ UNCHANGED <<account, pubkey_address, tx, txo, txi, ever_used, calls>>

\* a call of <manager>.get_max_gap()
GetMaxGap(p, m) ==
    /\ pc[p] = "idle"
    /\ Return(p, [op |-> "get_max_gap", manager |-> m, max_gap |-> get_max_gap(m)])
    /\ UNCHANGED <<account, pubkey_address, tx, txo, txi, ever_used, calls>>

\* get_or_create_usable_address resumes and calls ensure_address_gap
EnsureAfterQuery(p) ==
    /\ pc[p] = "ensure"
    /\ EnsureQuery(p, local[p].manager, "get_or_create_usable_address")

\* ensure_address_gap resumes: generate_keys / add_keys, and the return
GenerateKeys(p) ==
    /\ pc[p] = "generate"
    /\ LET m == local[p].manager
           keys == IF address_generator = "single-address"
                   THEN << <<0, public_key(m)>> >>
                   ELSE new_keys(m, gap_start(local[p].addresses),
                                 gap_end(m, local[p].addresses))
           r == add_keys(pubkey_address, chain_number(m), keys)
           addresses == [i \in DOMAIN keys |-> address_of(keys[i][2])]
       IN  /\ pubkey_address' = r.pubkey_address
           /\ Return(p, EnsureResult(m, local[p].via, r.raised,
                                     IF r.raised THEN <<>> ELSE addresses))
    /\ UNCHANGED <<account, tx, txo, txi, ever_used, calls>>

\* the chains on which set_address_history marks an address used
marked_used(rows, address, history) ==
    IF history # None /\ count(history) \div 2 > 0
    THEN chains_of(rows, address) ELSE {}

\* a call of db.set_address_history(address, history)
SetAddressHistory(p, address, history) ==
    /\ pc[p] = "idle"
    /\ calls["set_address_history"] < MaxHistories
    /\ calls' = [calls EXCEPT !["set_address_history"] = @ + 1]
    /\ LET r == set_address_history_sql(pubkey_address, address, history)
       IN  /\ pubkey_address' = r.pubkey_address
           /\ ever_used' = ever_used \cup marked_used(pubkey_address, address, history)
           /\ Return(p, [op |-> "set_address_history", address |-> address,
                         raised |-> r.raised])
    /\ UNCHANGED <<account, tx, txo, txi>>


(* --------------------- the account's key material ---------------------- *)

\* BaseAccount.encrypt(password): the assertion, then the three assignments
\* in order; a private_key that is a str has no extended_key_string
\* (AttributeError), and the assignment of seed before it stays
Encrypt(p, password) ==
    /\ pc[p] = "idle"
    /\ LET secret == double_sha256(password)
       IN  IF encrypted
           THEN /\ UNCHANGED <<seed, private_key, encrypted>>
                /\ Return(p, [op |-> "encrypt", raised |-> TRUE])
           ELSE /\ seed' = aes_encrypt(secret, seed)
                /\ IF private_key.kind = "PrivateKey"
                   THEN /\ private_key' = aes_encrypt(secret, extended_key_string(private_key))
                        /\ encrypted' = TRUE
                        /\ Return(p, [op |-> "encrypt", raised |-> FALSE])
                   ELSE /\ UNCHANGED <<private_key, encrypted>>
                        /\ Return(p, [op |-> "encrypt", raised |-> TRUE])
    /\ UNCHANGED <<address_generator, receiving_gap, pubkey_address, tx, txo, txi,
                   ever_used, calls>>

\* BaseAccount.decrypt(password): the assertion, then the three assignments
\* in order; from_extended_key_string raises on what is not an extended key
Decrypt(p, password) ==
    /\ pc[p] = "idle"
    /\ LET secret == double_sha256(password)
           key == from_extended_key_string(aes_decrypt(secret, private_key))
       IN  IF ~encrypted
           THEN /\ UNCHANGED <<seed, private_key, encrypted>>
                /\ Return(p, [op |-> "decrypt", raised |-> TRUE])
           ELSE /\ seed' = aes_decrypt(secret, seed)
                /\ IF key.raised
                   THEN /\ UNCHANGED <<private_key, encrypted>>
                        /\ Return(p, [op |-> "decrypt", raised |-> TRUE])
                   ELSE /\ private_key' = key.value
                        /\ encrypted' = FALSE
                        /\ Return(p, [op |-> "decrypt", raised |-> FALSE])
    /\ UNCHANGED <<address_generator, receiving_gap, pubkey_address, tx, txo, txi,
                   ever_used, calls>>

\* <manager>.get_private_key(index): the deterministic manager derives
\* account.private_key.child(chain_number).child(index), which a str does
\* not have (AttributeError); the single manager returns
\* account.private_key as it is. The value is <<>> when the call raised.
manager_get_private_key(m, index) ==
    IF address_generator = "single-address"
    THEN [raised |-> FALSE, value |-> <<private_key>>]
    ELSE IF private_key.kind = "PrivateKey"
         THEN [raised |-> FALSE,
               value |-> <<PrivateKey(child(child(private_key.path, chain_number(m)), index))>>]
         ELSE [raised |-> TRUE, value |-> <<>>]

\* a call of <manager>.get_private_key(index)
ManagerGetPrivateKey(p, m, index) ==
    /\ pc[p] = "idle"
    /\ Return(p, [op |-> "AddressManager.get_private_key", manager |-> m, index |-> index,
                  raised |-> manager_get_private_key(m, index).raised,
                  value |-> manager_get_private_key(m, index).value])
    /\ UNCHANGED <<account, pubkey_address, tx, txo, txi, ever_used, calls>>

\* a call of BaseAccount.get_private_key(chain, index): the assertion, then
\* the manager of the chain
AccountGetPrivateKey(p, chain, index) ==
    /\ pc[p] = "idle"
    /\ LET m == IF chain = 0 THEN "receiving" ELSE "change"
           r == IF encrypted THEN [raised |-> TRUE, value |-> <<>>]
                ELSE manager_get_private_key(m, index)
       IN  Return(p, [op |-> "BaseAccount.get_private_key", manager |-> m, index |-> index,
                      raised |-> r.raised, value |-> r.value])
    /\ UNCHANGED <<account, pubkey_address, tx, txo, txi, ever_used, calls>>


(* ----------------------- database calls: the txos ---------------------- *)

\* a call of db.save_transaction_io(save_tx, tx, height, is_verified,
\* address, txhash, history): _steps run inside one runInteraction.
\* `again` in the result tells whether the call that completed just before
\* was a successful save_transaction_io with the same arguments.
SaveTransactionIO(p, save_tx, t, height, is_verified, address, txhash, history) ==
    /\ pc[p] = "idle"
    /\ calls["save_transaction_io"] < MaxSaves
    /\ calls' = [calls EXCEPT !["save_transaction_io"] = @ + 1]
    /\ LET after == runInteraction(DB, steps(DB, save_tx, t, height, is_verified,
                                             address, txhash, history))
       IN  /\ pubkey_address' = after.pubkey_address
           /\ tx' = after.tx
           /\ txo' = after.txo
           /\ txi' = after.txi
           /\ ever_used' = IF after.raised THEN ever_used
                           ELSE ever_used \cup marked_used(pubkey_address, address, history)
           /\ Return(p, [op |-> "save_transaction_io",
                         args |-> <<save_tx, t.id, height, is_verified, address,
                                    txhash, history>>,
                         raised |-> after.raised,
                         again |-> /\ ret.op = "save_transaction_io"
                                   /\ ~ret.raised
                                   /\ ret.args = <<save_tx, t.id, height, is_verified,
                                                   address, txhash, history>>])
    /\ UNCHANGED account

\* the txoids of the stored outputs
StoredTxoIds == { r.txoid : r \in txo }

\* a call of db.reserve_outputs(txos) for stored outputs; the result keeps
\* the table as it was before the call
ReserveOutputs(p, txoids) ==
    /\ pc[p] = "idle"
    /\ txo' = reserve_outputs(txo, txoids, TRUE)
    /\ Return(p, [op |-> "reserve_outputs", txoids |-> txoids, before |-> txo])
    /\ UNCHANGED <<account, pubkey_address, tx, txi, ever_used, calls>>

\* a call of db.release_outputs(txos) for stored outputs; `follows` tells
\* whether it comes right after reserve_outputs of the same outputs, and
\* `before` is then the table before that reserve_outputs
ReleaseOutputs(p, txoids) ==
    /\ pc[p] = "idle"
    /\ txo' = release_outputs(txo, txoids)
    /\ LET follows == ret.op = "reserve_outputs" /\ ret.txoids = txoids
       IN  Return(p, [op |-> "release_outputs", txoids |-> txoids,
                      follows |-> follows,
                      before |-> IF follows THEN ret.before ELSE txo])
    /\ UNCHANGED <<account, pubkey_address, tx, txi, ever_used, calls>>

\* a call of db.get_balance_for_account(account, include_reserved)
GetBalanceForAccount(p, include_reserved) ==
    /\ pc[p] = "idle"
    /\ Return(p, [op |-> "get_balance_for_account", include_reserved |-> include_reserved,
                  value |-> get_balance_for_account(txo, tx, pubkey_address, txi,
                                                    include_reserved)])
    /\ UNCHANGED <<account, pubkey_address, tx, txo, txi, ever_used, calls>>

(* --------------------------- BaseAccount.fund -------------------------- *)

\* ledger.reserve_outputs / ledger.release_outputs: the ledger's helpers,
\* which hand the outputs to the database
ledger_reserve_outputs(rows_txo, utxos) ==
    reserve_outputs(rows_txo, { id_of(o) : o \in utxos }, TRUE)
ledger_release_outputs(rows_txo, utxos) ==
    release_outputs(rows_txo, { id_of(o) : o \in utxos })

\* tx_class.create(inputs=[spend(txo) for txo in utxos], outputs=[], ...):
\* the txos that the inputs of the built transaction refer to
created_inputs(utxos) == utxos

\* fund(to_account, everything=True, broadcast=...): the UTXO fetch.
\* `before` is a history variable: the txo table when the call began, kept
\* when `snapshot` asks for it.
FundFetch(p, broadcast, snapshot) ==
    /\ pc[p] = "idle"
    /\ pc' = [pc EXCEPT ![p] = "fund_reserve"]
    /\ local' = [local EXCEPT ![p] =
           [op |-> "fund", broadcast |-> broadcast,
            before |-> IF snapshot THEN txo ELSE {},
            utxos |-> get_utxos_for_account(txo, pubkey_address, txi)]]
    /\ UNCHANGED <<account, pubkey_address, tx, txo, txi, ret, ever_used, calls>>

\* fund resumes with the utxos and reserves them
FundReserve(p) ==
    /\ pc[p] = "fund_reserve"
    /\ txo' = ledger_reserve_outputs(txo, local[p].utxos)
    /\ pc' = [pc EXCEPT ![p] = "fund_create"]
    /\ UNCHANGED <<account, pubkey_address, tx, txi, local, ret, ever_used, calls>>

\* fund resumes and builds the transaction
FundCreate(p) ==
    /\ pc[p] = "fund_create"
    /\ pc' = [pc EXCEPT ![p] = "fund_finish"]
    /\ local' = [local EXCEPT ![p] =
           [op |-> "fund", broadcast |-> local[p].broadcast, before |-> local[p].before,
            utxos |-> local[p].utxos, inputs |-> created_inputs(local[p].utxos)]]
    /\ UNCHANGED <<account, pubkey_address, tx, txo, txi, ret, ever_used, calls>>

\* fund resumes with the transaction: broadcast it, or release its inputs
FundFinish(p) ==
    /\ pc[p] = "fund_finish"
    /\ txo' = IF local[p].broadcast THEN txo
              ELSE ledger_release_outputs(txo, local[p].inputs)
    /\ Return(p, [op |-> "fund", broadcast |-> local[p].broadcast,
                  inputs |-> { id_of(o) : o \in local[p].inputs }])
    /\ UNCHANGED <<account, pubkey_address, tx, txi, ever_used, calls>>

\* the sum of the amounts of a set of outputs
RECURSIVE SumAmounts(_)
SumAmounts(S) ==
    IF S = {} THEN 0
    ELSE LET o == CHOOSE x \in S : TRUE IN o.amount + SumAmounts(S \ {o})

\* the amounts and the numbers of outputs fund is asked for
Amounts == {-1, 0, 4, 6}
OutputCounts == {1, 2}

\* fund accepting every amount that is not negative
fund_mode_accepting_zero(everything, amount) ==
    IF everything THEN "everything" ELSE IF amount >= 0 THEN "amount" ELSE "ValueError"

\* the branch fund takes: `if everything: ... elif amount > 0: ... else:
\* raise ValueError`
fund_mode(everything, amount) ==
    IF everything THEN "everything" ELSE IF amount > 0 THEN "amount" ELSE "ValueError"

\* the outputs fund asks the builder for in amount mode
pay_outputs(amount, outputs, to_address) ==
    [i \in 1..outputs |-> [amount |-> amount \div outputs,
                           script |-> P2PKH(address_to_hash160(to_address))]]

\* tx_class.create(inputs=[], outputs=..., funding_accounts=[self],
\* change_account=self): the sets of unspent outputs of the account the
\* builder may draw to fund `amount`
funding_choices(utxos, amount) ==
    { S \in SUBSET utxos : SumAmounts(S) >= amount }

\* fund(to_account, amount, everything=False, outputs, broadcast) with the
\* account itself as to_account: the ValueError, or the query of
\* to_account.change.get_or_create_usable_address() for a usable address
FundAmount(p, amount, outputs, broadcast) ==
    /\ pc[p] = "idle"
    /\ IF fund_mode(FALSE, amount) = "ValueError"
       THEN Return(p, [op |-> "fund", raised |-> TRUE, error |-> "ValueError",
                       amount |-> amount])
       ELSE LET records == get_address_records("change", 1, TRUE)
            IN  /\ pc' = [pc EXCEPT ![p] =
                             IF records # <<>> THEN "fund_build" ELSE "fund_ensure"]
                /\ local' = [local EXCEPT ![p] =
                       [op |-> "fund", broadcast |-> broadcast, amount |-> amount,
                        outputs |-> outputs,
                        to_address |-> IF records # <<>> THEN <<records[1].address>>
                                       ELSE <<>>]]
                /\ UNCHANGED ret
    /\ UNCHANGED <<account, pubkey_address, tx, txo, txi, ever_used, calls>>

\* get_or_create_usable_address inside fund calls ensure_address_gap of the
\* change manager: its query; on [] the caller's addresses[0] raises
FundEnsure(p) ==
    /\ pc[p] = "fund_ensure"
    /\ LET addresses ==
              IF address_generator = "single-address"
              THEN get_address_records("change", NoneInt, FALSE)
              ELSE query_addresses("change", gap("change"), NoneInt, "position DESC")
       IN  /\ (address_generator = "deterministic-chain" /\ ~gap_is_full("change", addresses))
                 => gap_end("change", addresses) <= PositionLimit
           /\ IF gap_is_full("change", addresses)
              THEN Return(p, [op |-> "fund", raised |-> TRUE, error |-> "IndexError",
                              amount |-> local[p].amount])
              ELSE /\ pc' = [pc EXCEPT ![p] = "fund_generate"]
                   /\ local' = [local EXCEPT ![p] =
                          [op |-> "fund", broadcast |-> local[p].broadcast,
                           amount |-> local[p].amount, outputs |-> local[p].outputs,
                           to_address |-> <<>>, addresses |-> addresses]]
                   /\ UNCHANGED ret
    /\ UNCHANGED <<account, pubkey_address, tx, txo, txi, ever_used, calls>>

\* ensure_address_gap inside fund resumes: generate_keys / add_keys; the
\* first new address is the one fund pays to
FundGenerate(p) ==
    /\ pc[p] = "fund_generate"
    /\ LET keys == IF address_generator = "single-address"
                   THEN << <<0, public_key("change")>> >>
                   ELSE new_keys("change", gap_start(local[p].addresses),
                                 gap_end("change", local[p].addresses))
           r == add_keys(pubkey_address, chain_number("change"), keys)
       IN  /\ pubkey_address' = r.pubkey_address
           /\ IF r.raised
              THEN Return(p, [op |-> "fund", raised |-> TRUE, error |-> "IntegrityError",
                              amount |-> local[p].amount])
              ELSE /\ pc' = [pc EXCEPT ![p] = "fund_build"]
                   /\ local' = [local EXCEPT ![p] =
                          [op |-> "fund", broadcast |-> local[p].broadcast,
                           amount |-> local[p].amount, outputs |-> local[p].outputs,
                           to_address |-> <<address_of(keys[1][2])>>]]
                   /\ UNCHANGED ret
    /\ UNCHANGED <<account, tx, txo, txi, ever_used, calls>>

\* fund resumes with the address and builds the transaction: the builder
\* draws unspent outputs of the account and reserves them, or fails when
\* they do not cover the amount
FundBuild(p) ==
    /\ pc[p] = "fund_build"
    /\ LET utxos == get_utxos_for_account(txo, pubkey_address, txi)
       IN  IF funding_choices(utxos, local[p].amount) = {}
           THEN /\ Return(p, [op |-> "fund", raised |-> TRUE, error |-> "InsufficientFunds",
                              amount |-> local[p].amount])
                /\ UNCHANGED txo
           ELSE \E S \in funding_choices(utxos, local[p].amount) :
                   /\ txo' = ledger_reserve_outputs(txo, S)
                   /\ pc' = [pc EXCEPT ![p] = "fund_finish"]
                   /\ local' = [local EXCEPT ![p] =
                          [op |-> "fund", broadcast |-> local[p].broadcast, before |-> {},
                           utxos |-> S, inputs |-> created_inputs(S),
                           outputs |-> pay_outputs(local[p].amount, local[p].outputs,
                                                   local[p].to_address[1])]]
                   /\ UNCHANGED ret
    /\ UNCHANGED <<account, pubkey_address, tx, txi, ever_used, calls>>

(* --------------------------- specifications ---------------------------- *)

\* the calls of ensure_address_gap of the address managers `managers`
FillStep(p, managers) ==
    \/ \E m \in managers : EnsureAddressGap(p, m)
    \/ GenerateKeys(p)

\* the calls of the address managers `managers`
ChainStep(p, managers) ==
    \/ FillStep(p, managers)
    \/ \E m \in managers : GetOrCreateUsableAddress(p, m)
    \/ EnsureAfterQuery(p)

\* the ledger records the history of an address
HistoryStep(p, addresses, histories) ==
    \E address \in addresses, history \in histories :
       SetAddressHistory(p, address, history)

\* the ledger ingests a transaction found in the history of an address
IngestStep(p, save_calls, histories) ==
    \E call \in save_calls, t \in Transactions,
       address \in SaveAddresses, history \in histories :
       SaveTransactionIO(p, call[1], t, call[2], call[2] > 0, address,
                         address_to_hash160(address), history)

\* save_transaction_io called with any of its modes, for an address that
\* may not be stored and a txhash that may not be the hash of the address
StoreStep(p) ==
    \E call \in SaveCalls, t \in Transactions, address \in SaveAddresses :
       \E txhash \in {address_to_hash160(address), ForeignHash} :
          SaveTransactionIO(p, call[1], t, call[2], call[2] > 0, address, txhash, <<>>)

\* direct calls of the reservation interface of the database
ReservationStep(p) ==
    \/ \E txoids \in SUBSET StoredTxoIds : ReserveOutputs(p, txoids)
    \/ \E txoids \in SUBSET StoredTxoIds : ReleaseOutputs(p, txoids)

\* the steps of fund
FundStep(p, snapshot) ==
    \/ \E broadcast \in BOOLEAN : FundFetch(p, broadcast, snapshot)
    \/ FundReserve(p)
    \/ FundCreate(p)
    \/ FundFinish(p)

\* Address management: the coroutines of both managers interleave at their
\* suspension points while histories arrive.
NextChains ==
    \E p \in Procs :
        \/ ChainStep(p, Managers)
        \/ HistoryStep(p, AddressUniverse, Histories \cup {None})
SpecChains == Init /\ [][NextChains]_vars

\* Address management by one caller: every call runs to completion before
\* the next one starts.
NextChainsSeq ==
    \/ ChainStep(1, Managers)
    \/ HistoryStep(1, AddressUniverse, Histories \cup {None})
SpecChainsSeq == Init /\ [][NextChainsSeq]_vars

\* Synchronisation by one caller: the receiving chain is filled, histories
\* and transactions are ingested.
NextIngest ==
    \/ ChainStep(1, {"receiving"})
    \/ HistoryStep(1, SaveAddresses, SaveHistories)
    \/ IngestStep(1, SaveCalls, SaveHistories)
SpecIngest == Init /\ [][NextIngest]_vars

\* Funding: the receiving chain is filled, confirmed transactions are
\* inserted, and the coroutines of fund interleave with them.
NextFund ==
    \E p \in Procs :
        \/ FillStep(p, {"receiving"})
        \/ IngestStep(p, {<<"insert", 1>>}, {<<>>})
        \/ FundStep(p, FALSE)
SpecFund == Init /\ [][NextFund]_vars

\* Funding and reservation by one caller.
NextFundSeq ==
    \/ FillStep(1, {"receiving"})
    \/ IngestStep(1, {<<"insert", 1>>}, {<<>>})
    \/ ReservationStep(1)
    \/ FundStep(1, TRUE)
SpecFundSeq == Init /\ [][NextFundSeq]_vars

\* the steps of fund in amount mode
FundAmountStep(p) ==
    \/ \E amount \in Amounts, outputs \in OutputCounts, broadcast \in BOOLEAN :
          FundAmount(p, amount, outputs, broadcast)
    \/ FundEnsure(p)
    \/ FundGenerate(p)
    \/ FundBuild(p)
    \/ FundFinish(p)

\* Funding an amount by one caller: the chains are filled, confirmed
\* transactions are inserted, outputs are reserved and fund is called with
\* an amount.
NextFundAmount ==
    \/ FillStep(1, Managers)
    \/ IngestStep(1, {<<"insert", 1>>}, {<<>>})
    \/ \E txoids \in SUBSET StoredTxoIds : ReserveOutputs(1, txoids)
    \/ FundAmountStep(1)
SpecFundAmount == Init /\ [][NextFundAmount]_vars

\* the calls on the key material of the account
KeyStep(p) ==
    \/ \E password \in Passwords : Encrypt(p, password)
    \/ \E password \in Passwords : Decrypt(p, password)
    \/ \E chain \in {0, 1}, index \in 0..MaxPosition : AccountGetPrivateKey(p, chain, index)
    \/ \E m \in Managers, index \in 0..MaxPosition : ManagerGetPrivateKey(p, m, index)

\* Key material: an account loaded from any of the account dicts is
\* encrypted, decrypted and asked for private keys.
InitKeys == InitWith(AccountDicts, {ReceivingGap})
NextKeys == KeyStep(1)
SpecKeys == InitKeys /\ [][NextKeys]_vars

\* the addresses a receiving chain with the default gap holds when it is
\* first filled
DefaultGapAddresses ==
    { address_of(child(child(MasterKey, 0), i)) : i \in 0..(DefaultGap - 1) }

\* The default gap by one caller: an account whose dict names no gap fills
\* its receiving chain while histories arrive for its addresses, the
\* transaction paying its second address is ingested, and the largest gap
\* of the chain is asked for.
InitDefaultGap == InitWith({GeneratedDict}, {DefaultGap})
NextDefaultGap ==
    \/ FillStep(1, {"receiving"})
    \/ HistoryStep(1, DefaultGapAddresses, {<<"a", ":", "1", ":", "b", ":", "2">>})
    \/ SaveTransactionIO(1, "skip", Tx2, 1, TRUE, address_of(Receiving1),
                         address_to_hash160(address_of(Receiving1)),
                         <<"a", ":", "1", ":", "b", ":", "2">>)
    \/ GetMaxGap(1, "receiving")
SpecDefaultGap == InitDefaultGap /\ [][NextDefaultGap]_vars

\* The store by one caller: save_transaction_io with arbitrary arguments
\* next to the filling of the receiving chain, reservations and balance
\* queries.
NextStore ==
    \/ FillStep(1, {"receiving"})
    \/ StoreStep(1)
    \/ \E txoids \in SUBSET StoredTxoIds : ReserveOutputs(1, txoids)
    \/ \E include_reserved \in BOOLEAN : GetBalanceForAccount(1, include_reserved)
SpecStore == Init /\ [][NextStore]_vars


(* ------------------------------ properties ----------------------------- *)

\* the rows of the chain of manager m
chain_rows(rows, m) ==
    { r \in rows : r.account = AccountId /\ r.chain = chain_number(m) }

Deterministic == address_generator = "deterministic-chain"

\* C1: on a deterministic chain on which no address was ever marked used,
\* once a first ensure_address_gap has filled the chain it holds exactly the
\* positions 0..gap-1, all with used_times = 0, and every later
\* ensure_address_gap returns [] and inserts nothing.
C1_GapFilledOnce ==
    [][\A m \in Managers :
         (Deterministic /\ chain_number(m) \notin ever_used') =>
            /\ chain_rows(pubkey_address', m) # {} =>
                  /\ { r.position : r \in chain_rows(pubkey_address', m) } = 0..(gap(m) - 1)
                  /\ Cardinality(chain_rows(pubkey_address', m)) = gap(m)
                  /\ \A r \in chain_rows(pubkey_address', m) : r.used_times = 0
            /\ (chain_rows(pubkey_address, m) # {} /\ pc[1] = "idle"
                    /\ \E n \in Managers : chain_number(n) = chain_number(m)
                                           /\ EnsureAddressGap(1, n)) =>
                  /\ pc'[1] = "idle"
                  /\ ret'.op = "ensure_address_gap" /\ ~ret'.raised /\ ret'.value = <<>>
                  /\ pubkey_address' = pubkey_address
      ]_vars

\* a second ensure_address_gap has returned [] on the unused receiving chain
C1_Witness ==
    /\ Deterministic
    /\ ever_used = {}
    /\ Cardinality(chain_rows(pubkey_address, "receiving")) = gap("receiving")
    /\ ret = [op |-> "ensure_address_gap", manager |-> "receiving",
              raised |-> FALSE, value |-> <<>>]


\* coroutine p is inside fund, after its UTXO fetch
InFund(p) == pc[p] \in {"fund_reserve", "fund_create", "fund_finish"}

\* C2: no unspent output is taken as an input by two fund(everything=True)
\* invocations that are in flight together: the outputs one has fetched are
\* never among those the other fetches.
C2_NoOutputFundedTwice ==
    \A p \in Procs : \A q \in Procs \ {p} :
        (InFund(p) /\ InFund(q)) =>
            { id_of(o) : o \in local[p].utxos } \cap { id_of(o) : o \in local[q].utxos } = {}


\* the is_reserved flag of every txo row
Flags(rows) == { <<r.txoid, r.is_reserved>> : r \in rows }

\* C3: when a fund(everything=True, broadcast=False) call of a single caller
\* completes, the is_reserved flag of every txo row is what it was when the
\* call began.
C3_FundRestoresFlags ==
    [][(pc[1] = "fund_finish" /\ ~local[1].broadcast /\ FundFinish(1)) =>
          Flags(txo') = Flags(local[1].before)]_vars

\* a fund without broadcast has returned a transaction with inputs while
\* another output is reserved
C3_Witness ==
    /\ ret.op = "fund"
    /\ ~ret.broadcast
    /\ ret.inputs # {}
    /\ \E r \in txo : r.is_reserved = 1 /\ r.txoid \notin ret.inputs
    /\ \A r \in txo : r.txoid \in ret.inputs => r.is_reserved = 0

\* the txo rows that are owned by the account, unreserved and unspent
AvailableRows ==
    { r \in txo :
        /\ \E a \in pubkey_address : a.address = r.address /\ a.account = AccountId
        /\ r.is_reserved = 0
        /\ ~ \E i \in BagToSet(txi) : i.txoid = r.txoid }

\* C4: get_utxos_for_account without constraints returns exactly the txo
\* rows whose address belongs to the account, that are not reserved and that
\* no txi row references, each once.
C4_UtxosAreAvailableRows ==
    /\ { id_of(o) : o \in get_utxos_for_account(txo, pubkey_address, txi) }
          = { r.txoid : r \in AvailableRows }
    /\ Cardinality(utxo_query(txo, pubkey_address, txi)) = Cardinality(AvailableRows)
    /\ \A o \in get_utxos_for_account(txo, pubkey_address, txi) :
          \E r \in AvailableRows :
             r.txoid = id_of(o) /\ r.amount = o.amount /\ r.script = o.script

\* an output is returned while another one is spent
C4_Witness ==
    /\ get_utxos_for_account(txo, pubkey_address, txi) # {}
    /\ \E r \in txo : \E i \in BagToSet(txi) : i.txoid = r.txoid

\* the transaction with the given id
TxById(txid) == CHOOSE t \in Transactions : t.id = txid

\* C5: a save_transaction_io call that comes right after a successful call
\* with exactly the same arguments leaves the tx, txo and txi tables as
\* they are.
C5_SaveIsIdempotent ==
    [][(/\ pc[1] = "idle"
        /\ ret.op = "save_transaction_io"
        /\ ~ret.raised
        /\ SaveTransactionIO(1, ret.args[1], TxById(ret.args[2]), ret.args[3],
                             ret.args[4], ret.args[5], ret.args[6], ret.args[7]))
        => (tx' = tx /\ txo' = txo /\ txi' = txi)]_vars

\* a transaction that spends a stored output was ingested twice in a row
C5_Witness ==
    /\ ret.op = "save_transaction_io"
    /\ ret.again
    /\ ~ret.raised
    /\ txo # {}
    /\ \E i \in BagToSet(txi) : i.txid = ret.args[2]


\* this step is a save_transaction_io call
SaveStep ==
    /\ calls'["save_transaction_io"] = calls["save_transaction_io"] + 1
    /\ ret'.op = "save_transaction_io"

\* what _steps does with the arguments args when every statement runs
StepsOf(args) ==
    steps(DB, args[1], TxById(args[2]), args[3], args[4], args[5], args[6], args[7])

\* C6: save_transaction_io is all-or-nothing: when one of its statements
\* fails the four tables are left as they were, otherwise all four steps are
\* applied; no state in between is ever visible.
C6_SaveIsAtomic ==
    [][SaveStep =>
          IF StepsOf(ret'.args).raised
          THEN /\ ret'.raised
               /\ pubkey_address' = pubkey_address
               /\ tx' = tx /\ txo' = txo /\ txi' = txi
          ELSE /\ ~ret'.raised
               /\ pubkey_address' = StepsOf(ret'.args).pubkey_address
               /\ tx' = StepsOf(ret'.args).tx
               /\ txo' = StepsOf(ret'.args).txo
               /\ txi' = StepsOf(ret'.args).txi]_vars

\* an insert of a new transaction paying the address failed at its last
\* statement and left no row behind
C6_Witness ==
    /\ ret.op = "save_transaction_io"
    /\ ret.raised
    /\ ret.args[1] = "insert"
    /\ ret.args[7] = None
    /\ \E i \in DOMAIN TxById(ret.args[2]).outputs :
          TxById(ret.args[2]).outputs[i].script = P2PKH(ret.args[6])
    /\ ~ \E r \in tx : r.txid = ret.args[2]
    /\ ~ \E r \in txo : r.txid = ret.args[2]

\* the number of ':' in a stored history, an absent history counting as empty
Colons(history) ==
    IF history = NULL THEN 0
    ELSE Cardinality({ i \in DOMAIN history : history[i] = ":" })

\* C7: the used_times of every pubkey_address row is the number of ':' in
\* its history divided by 2.
C7_UsedTimesIsHalfTheColons ==
    \A r \in pubkey_address : r.used_times = Colons(r.history) \div 2

\* a row with three ':' in its history next to a row without history
C7_Witness ==
    /\ \E r \in pubkey_address : Colons(r.history) = 3 /\ r.used_times = 1
    /\ \E r \in pubkey_address : r.history = NULL
    /\ tx # {}

\* the stored outputs of txoids were all unreserved in rows
Unreserved(rows, txoids) == \A r \in rows : r.txoid \in txoids => r.is_reserved = 0

\* C8 as claimed: reserve_outputs(S) followed by release_outputs(S) leaves
\* every is_reserved flag as it was before reserve_outputs, whatever the
\* flags were.
C8_ReserveReleaseRestoresAnyFlags ==
    [][(/\ pc[1] = "idle"
        /\ ret.op = "reserve_outputs"
        /\ ReleaseOutputs(1, ret.txoids))
        => Flags(txo') = Flags(ret.before)]_vars

\* C8 as amended: when the outputs of S were all unreserved before,
\* reserve_outputs(S) followed by release_outputs(S) leaves every
\* is_reserved flag, inside and outside S, as it was before reserve_outputs.
C8_ReserveReleaseRestoresUnreserved ==
    [][(/\ pc[1] = "idle"
        /\ ret.op = "reserve_outputs"
        /\ Unreserved(ret.before, ret.txoids)
        /\ ReleaseOutputs(1, ret.txoids))
        => Flags(txo') = Flags(ret.before)]_vars

\* unreserved outputs were reserved and released again while another
\* output stayed reserved
C8_Witness ==
    /\ ret.op = "release_outputs"
    /\ ret.follows
    /\ ret.txoids # {}
    /\ Unreserved(ret.before, ret.txoids)
    /\ \E r \in ret.before : r.txoid \notin ret.txoids /\ r.is_reserved = 1
    /\ Flags(txo) = Flags(ret.before)

Single == address_generator = "single-address"

\* C9: a single-address account never has more than one pubkey_address row;
\* ensure_address_gap returns that one address when it creates the row and
\* [] ever after, and get_or_create_usable_address of the receiving and of
\* the change manager both return that address.
C9_SingleAddress ==
    [][Single =>
          /\ Cardinality(pubkey_address') <= 1
          /\ pc'[1] = "idle" =>
               /\ ret'.op = "ensure_address_gap" =>
                    /\ ~ret'.raised
                    /\ IF pubkey_address = {}
                       THEN /\ ret'.value = <<address_of(MasterKey)>>
                            /\ { r.address : r \in pubkey_address' } = {address_of(MasterKey)}
                       ELSE /\ ret'.value = <<>>
                            /\ pubkey_address' = pubkey_address
               /\ ret'.op = "get_or_create_usable_address" =>
                    /\ ~ret'.raised
                    /\ ret'.value = <<address_of(MasterKey)>>
                    /\ { r.address : r \in pubkey_address' } = {address_of(MasterKey)}
      ]_vars

\* the change manager has handed out the one address after it was used
C9_Witness ==
    /\ Single
    /\ ret = [op |-> "get_or_create_usable_address", manager |-> "change",
              raised |-> FALSE, value |-> <<address_of(MasterKey)>>]
    /\ \E r \in pubkey_address : r.address = address_of(MasterKey) /\ r.used_times > 0

\* the number of unused addresses at the tail of the chain of manager m
TrailingUnused(rows, m) ==
    Cardinality({ r \in chain_rows(rows, m) :
                    /\ r.used_times = 0
                    /\ \A q \in chain_rows(rows, m) :
                          q.position > r.position => q.used_times = 0 })

\* C10 as claimed: at all times the tail of each deterministic chain holds
\* at least gap consecutive addresses with used_times = 0.
C10_GapAtAllTimes ==
    Deterministic => \A m \in Managers : TrailingUnused(pubkey_address, m) >= gap(m)

\* this step completes an ensure_address_gap of manager m, called directly
\* or by get_or_create_usable_address
EnsureCompleted(m) ==
    /\ pc'[1] = "idle"
    /\ \/ ret'.op = "ensure_address_gap"
       \/ ret'.op = "get_or_create_usable_address" /\ pc[1] # "idle"
    /\ ~ret'.raised
    /\ ret'.manager = m

\* C10 as amended: whenever an ensure_address_gap call of a single caller
\* completes on a deterministic chain, the tail of that chain holds at least
\* gap consecutive addresses with used_times = 0.
C10_GapAfterEnsure ==
    [][\A m \in Managers :
          (Deterministic /\ EnsureCompleted(m))
          => TrailingUnused(pubkey_address', m) >= gap(m)]_vars

\* ensure_address_gap has refilled the receiving chain after a use
C10_Witness ==
    /\ Deterministic
    /\ ret.op = "ensure_address_gap"
    /\ ret.manager = "receiving"
    /\ ret.value # <<>>
    /\ \E r \in chain_rows(pubkey_address, "receiving") : r.used_times > 0
    /\ TrailingUnused(pubkey_address, "receiving") >= gap("receiving")


\* the output of transaction t that the txo row r stores, if any
OutputsOf(t, r) ==
    { i \in DOMAIN t.outputs :
        /\ r.txid = t.id
        /\ r.position = t.outputs[i].position
        /\ r.txoid = TxoId(t.id, t.outputs[i].position)
        /\ r.amount = t.outputs[i].amount
        /\ r.script = t.outputs[i].script }

\* C11: every txo row is inserted by a save_transaction_io call, for an
\* output of the call's transaction whose script is pay-to-pubkey-hash with
\* the call's txhash, and is bound to the call's address; outputs that are
\* pay-to-script-hash or pay another hash are not inserted by the call, and
\* no pay-to-script-hash output is ever stored.
C11_StoredOutputsPayTheHash ==
    [][/\ SaveStep =>
            LET t == TxById(ret'.args[2])
            IN  /\ \A r \in txo' \ txo :
                      /\ r.address = ret'.args[5]
                      /\ \E i \in OutputsOf(t, r) :
                            /\ t.outputs[i].script.is_pay_pubkey_hash
                            /\ t.outputs[i].script.pubkey_hash = ret'.args[6]
                /\ \A i \in DOMAIN t.outputs :
                      (\/ t.outputs[i].script.is_pay_script_hash
                       \/ t.outputs[i].script.pubkey_hash # ret'.args[6])
                      => ~ \E r \in txo' \ txo : i \in OutputsOf(t, r)
       /\ ~SaveStep => { r.txoid : r \in txo' } = StoredTxoIds
       /\ \A r \in txo' : ~r.script.is_pay_script_hash]_vars

\* a transaction was ingested for an address: the output paying it is
\* stored, its pay-to-script-hash output and the output paying a foreign
\* key are not
C11_Witness ==
    /\ ret.op = "save_transaction_io"
    /\ ~ret.raised
    /\ ret.args[6] = address_to_hash160(ret.args[5])
    /\ \E r \in txo : r.txid = ret.args[2] /\ r.address = ret.args[5]
    /\ \E i \in DOMAIN TxById(ret.args[2]).outputs :
          /\ TxById(ret.args[2]).outputs[i].script.is_pay_script_hash
          /\ TxoId(ret.args[2], TxById(ret.args[2]).outputs[i].position) \notin StoredTxoIds
    /\ \E i \in DOMAIN TxById(ret.args[2]).outputs :
          /\ TxById(ret.args[2]).outputs[i].script.pubkey_hash = ForeignHash
          /\ TxoId(ret.args[2], TxById(ret.args[2]).outputs[i].position) \notin StoredTxoIds


\* the txi rows a step has inserted
NewTxis == { r \in BagToSet(txi') : CopiesIn(r, txi') > CopiesIn(r, txi) }

\* the output that txoid refers to is stored under `address` in rows
StoredUnder(rows, txoid, address) ==
    \E o \in rows : o.txoid = txoid /\ o.address = address

SpentTxoIds(rows) == { r.txoid : r \in BagToSet(rows) }

\* C13: a successful save_transaction_io for an owned address of a
\* transaction with an input that references a txo stored under that address
\* leaves a txi row for that input; txi rows are never removed, and an output
\* that a txi row references is never returned by get_utxos_for_account,
\* neither by the query nor to a fund call that fetches its outputs.
C13_SpentOutputsAreNotReturned ==
    [][/\ (SaveStep /\ ~ret'.raised) =>
             LET t == TxById(ret'.args[2])
             IN  \A i \in DOMAIN t.inputs :
                    (/\ StoredUnder(txo, t.inputs[i], ret'.args[5])
                     /\ \E k \in pubkey_address : k.address = ret'.args[5])
                    => [txid |-> t.id, txoid |-> t.inputs[i], address |-> ret'.args[5]]
                          \in BagToSet(txi')
       /\ \A r \in BagToSet(txi) : r \in BagToSet(txi')
       /\ \A o \in get_utxos_for_account(txo', pubkey_address', txi') :
             id_of(o) \notin SpentTxoIds(txi')
       /\ \A p \in Procs :
             (pc[p] = "idle" /\ pc'[p] = "fund_reserve")
             => \A o \in local'[p].utxos : id_of(o) \notin SpentTxoIds(txi)]_vars

\* fund has spent what was left after a stored output of the account was
\* spent by an ingested transaction
C13_Witness ==
    /\ ret.op = "fund"
    /\ ret.inputs # {}
    /\ \E r \in BagToSet(txi) :
          /\ r.txoid \in StoredTxoIds
          /\ r.txoid \notin ret.inputs
          /\ \E k \in pubkey_address : k.address = r.address


\* C14: while the account is encrypted, every request for a private key,
\* by Account.get_private_key or by get_private_key of an address manager,
\* fails and returns no value.
C14_NoPrivateKeyWhileEncrypted ==
    [][(/\ encrypted
        /\ ret'.op \in {"BaseAccount.get_private_key", "AddressManager.get_private_key"})
        => (ret'.raised /\ ret'.value = <<>>)]_vars


\* C15: fund with everything = false and an amount <= 0 fails with a
\* ValueError at once: it returns in the step of the call, no is_reserved
\* flag changes, no address is generated and no transaction is built.
C15_NonPositiveAmountFails ==
    [][\A amount \in Amounts, outputs \in OutputCounts, broadcast \in BOOLEAN :
          (amount <= 0 /\ FundAmount(1, amount, outputs, broadcast))
          => /\ pc'[1] = "idle"
             /\ ret' = [op |-> "fund", raised |-> TRUE, error |-> "ValueError",
                        amount |-> amount]
             /\ Flags(txo') = Flags(txo)
             /\ pubkey_address' = pubkey_address
             /\ tx' = tx /\ txo' = txo /\ txi' = txi]_vars

\* fund with amount 0 has failed on an account that has an unreserved
\* output to spend and no change address yet
C15_Witness ==
    /\ ret = [op |-> "fund", raised |-> TRUE, error |-> "ValueError", amount |-> 0]
    /\ get_utxos_for_account(txo, pubkey_address, txi) # {}
    /\ chain_rows(pubkey_address, "change") = {}


\* C16: every txo row's txid is the key of a tx row and every txo row's
\* address is the key of a pubkey_address row, whatever save_tx mode and
\* address save_transaction_io was called with.
C16_ReferentialIntegrity ==
    \A r \in txo :
        /\ \E t \in tx : t.txid = r.txid
        /\ \E a \in pubkey_address : a.address = r.address


\* C17: no two pubkey_address rows share the same (account, chain,
\* position), also when ensure_address_gap calls on the same chain interleave
\* between their address query and add_keys.
C17_PositionsAreUnique ==
    \A r1 \in pubkey_address : \A r2 \in pubkey_address :
        (r1.account = r2.account /\ r1.chain = r2.chain /\ r1.position = r2.position)
        => r1 = r2

\* two ensure_address_gap calls on the receiving chain had both queried
\* the addresses before either generated keys: one of them has filled the
\* chain, the add_keys of the other has failed
C17_Witness ==
    /\ Deterministic
    /\ ret.op = "ensure_address_gap"
    /\ ret.manager = "receiving"
    /\ ret.raised
    /\ Cardinality(chain_rows(pubkey_address, "receiving")) = gap("receiving")
    /\ \A p \in Procs : pc[p] = "idle"


\* C18: get_balance_for_account with include_reserved = false is the sum of
\* the amounts of the outputs get_utxos_for_account returns, 0 when it
\* returns none.
C18_BalanceIsSumOfUtxos ==
    (ret.op = "get_balance_for_account" /\ ~ret.include_reserved)
    => ret.value = SumAmounts(get_utxos_for_account(txo, pubkey_address, txi))


\* the (at most gap) rows of the chain of manager m with the highest
\* positions
LastGap(m) ==
    { r \in chain_rows(pubkey_address, m) :
        Cardinality({ q \in chain_rows(pubkey_address, m) : q.position > r.position })
            < gap(m) }

\* the number of unused rows met when scanning LastGap(m) by descending
\* position up to the first used one
ScannedUnused(m) ==
    Cardinality({ r \in LastGap(m) :
                    /\ r.used_times = 0
                    /\ \A q \in LastGap(m) : q.position > r.position => q.used_times = 0 })

\* the highest position of the chain of manager m, -1 for an empty chain
MaxPositionOf(m) ==
    IF chain_rows(pubkey_address, m) = {} THEN -1
    ELSE CHOOSE n \in { r.position : r \in chain_rows(pubkey_address, m) } :
            \A r \in chain_rows(pubkey_address, m) : r.position <= n

\* C19: a sequential ensure_address_gap on a deterministic chain inserts
\* nothing and returns [] when the scan of the last gap addresses finds gap
\* unused ones; otherwise it inserts exactly gap - existing_gap new unused
\* addresses, at the positions max_position+1 .. max_position+(gap -
\* existing_gap), and returns them in ascending position order.
C19_EnsureFillsTheGap ==
    [][(Deterministic /\ pc'[1] = "idle" /\ ret'.op = "ensure_address_gap") =>
          LET m == ret'.manager
              missing == gap(m) - ScannedUnused(m)
              new == pubkey_address' \ pubkey_address
          IN  /\ ~ret'.raised
              /\ pubkey_address \subseteq pubkey_address'
              /\ Cardinality(new) = missing
              /\ { r.position : r \in new } =
                    (MaxPositionOf(m) + 1)..(MaxPositionOf(m) + missing)
              /\ \A r \in new :
                    /\ r.account = AccountId
                    /\ r.chain = chain_number(m)
                    /\ r.used_times = 0
                    /\ r.address = address_of(child(public_key(m), r.position))
              /\ ret'.value = [i \in 1..missing |->
                                 address_of(child(public_key(m), MaxPositionOf(m) + i))]
      ]_vars

\* ensure_address_gap has added one address to a receiving chain of which
\* the first address was used
C19_Witness ==
    /\ Deterministic
    /\ ret.op = "ensure_address_gap"
    /\ ret.manager = "receiving"
    /\ ~ret.raised
    /\ Len(ret.value) > 0
    /\ Len(ret.value) < gap("receiving")
    /\ \E r \in chain_rows(pubkey_address, "receiving") : r.used_times > 0


\* a receiving chain with the default gap of 20 that was filled once
\* (positions 0..19) and of which exactly the address at position 5 is used
FilledOnceAndFifthUsed(rows) ==
    /\ Deterministic
    /\ gap("receiving") = DefaultGap
    /\ { r.position : r \in chain_rows(rows, "receiving") } = 0..(DefaultGap - 1)
    /\ \A r \in chain_rows(rows, "receiving") : r.used_times > 0 <=> r.position = 5

\* this step completes an ensure_address_gap call on the receiving chain
ReceivingEnsureCompleted ==
    /\ pc'[1] = "idle"
    /\ ret'.op = "ensure_address_gap"
    /\ ret'.manager = "receiving"

\* the positions of the rows a step has added to the receiving chain
NewReceivingPositions ==
    { r.position : r \in chain_rows(pubkey_address', "receiving") \ pubkey_address }

\* C20 as claimed: on a receiving chain with gap 20 that holds positions
\* 0..19 of which position 5 is used, the next ensure_address_gap adds
\* exactly one key, at position 20, and restores 20 trailing unused
\* addresses.
C20_OneKeyRestoresTheGap ==
    [][(FilledOnceAndFifthUsed(pubkey_address) /\ ReceivingEnsureCompleted) =>
          /\ NewReceivingPositions = {DefaultGap}
          /\ TrailingUnused(pubkey_address', "receiving") >= DefaultGap]_vars

\* C20 as amended: on a receiving chain with gap 20 that holds positions
\* 0..19 of which position 5 is used, the next ensure_address_gap adds
\* exactly six keys, at positions 20..25, and this restores 20 trailing
\* unused addresses (positions 6..25).
C20_SixKeysRestoreTheGap ==
    [][(FilledOnceAndFifthUsed(pubkey_address) /\ ReceivingEnsureCompleted) =>
          /\ ~ret'.raised
          /\ NewReceivingPositions = DefaultGap..(DefaultGap + 5)
          /\ Len(ret'.value) = 6
          /\ TrailingUnused(pubkey_address', "receiving") = DefaultGap]_vars

\* the chain filled once, position 5 used, and filled again
C20_Witness ==
    /\ Deterministic
    /\ gap("receiving") = DefaultGap
    /\ ret.op = "ensure_address_gap"
    /\ ret.manager = "receiving"
    /\ ~ret.raised
    /\ Len(ret.value) = 6
    /\ { r.position : r \in chain_rows(pubkey_address, "receiving") } = 0..(DefaultGap + 5)
    /\ \A r \in chain_rows(pubkey_address, "receiving") : r.used_times > 0 <=> r.position = 5


\* the unused addresses of chain m that lie directly below the used row u:
\* the run of unused addresses that u closes
RunClosedBy(rows, m, u) ==
    { r \in chain_rows(rows, m) :
        /\ r.position < u.position
        /\ \A q \in chain_rows(rows, m) :
              (r.position <= q.position /\ q.position < u.position) => q.used_times = 0 }

\* the length of the longest run of unused addresses that a used address
\* closes; 0 when no address of the chain is used
LongestClosedRun(rows, m) ==
    LET used == { u \in chain_rows(rows, m) : u.used_times > 0 }
        lengths == { Cardinality(RunClosedBy(rows, m, u)) : u \in used }
    IN  IF used = {} THEN 0
        ELSE CHOOSE n \in lengths : \A k \in lengths : k <= n

\* the chain of m holds the positions 0..19 and only position 5 is used
OnlyFifthUsed(rows, m) ==
    /\ { r.position : r \in chain_rows(rows, m) } = 0..19
    /\ \A r \in chain_rows(rows, m) : (r.used_times > 0) <=> (r.position = 5)

\* C21: get_max_gap on a deterministic chain answers the length of the
\* longest run of consecutive unused addresses, by ascending position, that
\* is immediately followed by a used address; the unused addresses after the
\* last used one are not counted, so a chain without a used address yields 0
\* and the chain 0..19 with only position 5 used yields 5.
C21_MaxGapIsLongestClosedRun ==
    (Deterministic /\ ret.op = "get_max_gap" /\ pc[1] = "idle") =>
        /\ ret.max_gap = LongestClosedRun(pubkey_address, ret.manager)
        /\ (\A r \in chain_rows(pubkey_address, ret.manager) : r.used_times = 0)
              => ret.max_gap = 0
        /\ OnlyFifthUsed(pubkey_address, ret.manager) => ret.max_gap = 5

\* get_max_gap answered 5 for the chain 0..19 with only position 5 used
C21_Witness ==
    /\ Deterministic
    /\ ret.op = "get_max_gap"
    /\ OnlyFifthUsed(pubkey_address, ret.manager)
    /\ ret.max_gap = 5


\* the addresses of chain m that may still be handed out
Usable(rows, m) ==
    { r \in chain_rows(rows, m) : r.used_times <= MaximumUses }

\* r comes first among the rows S by (used_times, position)
LeastUsedLowest(r, S) ==
    \A q \in S : \/ r.used_times < q.used_times
                 \/ r.used_times = q.used_times /\ r.position <= q.position

\* C22: when get_or_create_usable_address completes on a deterministic chain
\* with no other call interleaved: if some address of the chain had
\* used_times <= maximum_uses_per_address it returns the one that is minimal
\* by (used_times, position) and no row is created; otherwise
\* ensure_address_gap has generated addresses and it returns the one with
\* the lowest position among them.
C22_UsableOrNewAddress ==
    [][ (Deterministic /\ pc'[1] = "idle"
           /\ ret'.op = "get_or_create_usable_address") =>
          LET m == ret'.manager
              usable == Usable(pubkey_address, m)
              created == { r \in chain_rows(pubkey_address', m) :
                             \A q \in chain_rows(pubkey_address, m) :
                                q.position # r.position }
          IN  /\ ~ret'.raised
              /\ IF usable # {}
                 THEN /\ pubkey_address' = pubkey_address
                      /\ \E r \in usable : /\ LeastUsedLowest(r, usable)
                                           /\ ret'.value = <<r.address>>
                 ELSE /\ created # {}
                      /\ \E r \in created : /\ \A q \in created : r.position <= q.position
                                            /\ ret'.value = <<r.address>> ]_vars

\* get_or_create_usable_address returned an unused address although an
\* address used once, and still usable, stands at a lower position
C22_Witness ==
    /\ Deterministic
    /\ pc[1] = "idle"
    /\ ret.op = "get_or_create_usable_address"
    /\ ~ret.raised
    /\ \E r, q \in Usable(pubkey_address, ret.manager) :
          /\ ret.value = <<r.address>>
          /\ q.position < r.position
          /\ q.used_times = 1
          /\ r.used_times = 0

\* get_or_create_usable_address found every address of a filled chain used
\* more than maximum_uses_per_address times and is about to generate keys
C22_WitnessGenerating ==
    /\ Deterministic
    /\ pc[1] = "generate"
    /\ local[1].via = "get_or_create_usable_address"
    /\ chain_rows(pubkey_address, local[1].manager) # {}
    /\ Usable(pubkey_address, local[1].manager) = {}


\* transaction pay has an output paying `address` that transaction spend
\* takes as an input
PaysAndSpends(pay, spend, address) ==
    \E i \in DOMAIN pay.outputs :
       /\ pay.outputs[i].script = P2PKH(address_to_hash160(address))
       /\ \E j \in DOMAIN spend.inputs :
             spend.inputs[j] = TxoId(pay.id, pay.outputs[i].position)

\* _steps with the arguments args on the tables db
StepsOn(db, args) ==
    steps(db, args[1], TxById(args[2]), args[3], args[4], args[5], args[6], args[7])

\* the tables after save_transaction_io with the arguments pay and then
\* with the arguments spend, on a store that holds the addresses rows_pa and
\* no transaction
PayThenSpend(rows_pa, pay, spend) ==
    LET empty == Tables(rows_pa, {}, {}, EmptyBag)
        paid == runInteraction(empty, StepsOn(empty, pay))
    IN  runInteraction(paid, StepsOn(paid, spend))

\* the first two save_transaction_io calls on the store were successful
\* calls for the same stored address, one just before the other
TwoSaves ==
    /\ pc[1] = "idle"
    /\ calls["save_transaction_io"] = 1
    /\ SaveStep
    /\ ret.op = "save_transaction_io"
    /\ ~ret.raised
    /\ ~ret'.raised
    /\ ret.args[5] = ret'.args[5]
    /\ ret.args[6] = address_to_hash160(ret.args[5])
    /\ ret'.args[6] = address_to_hash160(ret'.args[5])
    /\ \E r \in pubkey_address : r.address = ret.args[5]

\* C23: ingestion does not depend on the order for an owned address: after
\* save_transaction_io has run once for a transaction paying the address and
\* once for a transaction spending that output, the txo and txi rows, and
\* with them the answer of get_utxos_for_account, are the same whichever of
\* the two ran first.
C23_IngestionOrderIndependent ==
    [][ LET first == ret.args
            second == ret'.args
            paysFirst == PaysAndSpends(TxById(first[2]), TxById(second[2]), first[5])
            paysSecond == PaysAndSpends(TxById(second[2]), TxById(first[2]), first[5])
            expected == IF paysFirst
                        THEN PayThenSpend(pubkey_address', first, second)
                        ELSE PayThenSpend(pubkey_address', second, first)
        IN  (TwoSaves /\ (paysFirst \/ paysSecond)) =>
               /\ txo' = expected.txo
               /\ txi' = expected.txi
               /\ get_utxos_for_account(txo', pubkey_address', txi')
                    = get_utxos_for_account(expected.txo, pubkey_address', expected.txi)
      ]_vars

\* the two calls ran with the paying transaction first, and the spent
\* output is linked to its input
C23_PayFirstReached ==
    /\ calls["save_transaction_io"] = 2
    /\ ret.op = "save_transaction_io"
    /\ ~ret.raised
    /\ ret.args[2] = "t2"
    /\ \E i \in BagToSet(txi) : i.txid = "t2" /\ i.address = ret.args[5]


\* C24: whatever another ensure_address_gap or get_or_create_usable_address
\* on the same chain does between its query for a usable address and its
\* filling of the gap, get_or_create_usable_address, on a deterministic chain
\* and on a single address alike, does not fail and returns an address that
\* is stored in pubkey_address.
C24_UsableAddressAlwaysReturned ==
    ret.op = "get_or_create_usable_address" =>
        /\ ~ret.raised
        /\ \E r \in chain_rows(pubkey_address, ret.manager) : ret.value = <<r.address>>


\* C25: a call of encrypt or decrypt that fails (encrypt on an account that
\* is already encrypted, decrypt on one that is not, encrypt on a watch-only
\* account without a private key) leaves seed, private_key and encrypted as
\* they were; in particular seed is never left as ciphertext while encrypted
\* is false.
C25_FailedCallChangesNothing ==
    [][ ((\E password \in Passwords : Encrypt(1, password) \/ Decrypt(1, password))
           /\ ret'.raised) =>
          /\ seed' = seed
          /\ private_key' = private_key
          /\ encrypted' = encrypted
          /\ ~encrypted' => seed'.cipher = <<>> ]_vars

\* encrypt failed on an account that was already encrypted
C25_RefusedReached ==
    /\ ret.op = "encrypt"
    /\ ret.raised
    /\ encrypted

====
